---------------------------- MODULE Spec2Model ----------------------------
(***************************************************************************)
(* HTTP passthrough Worker -> Durable Object -> Container.                 *)
(*                                                                         *)
(* Two variants of the Worker are modelled:                                *)
(*   "ConvexContainer" : src/worker/index.ts  (class ConvexContainer       *)
(*                       extends the @cloudflare/containers Container)     *)
(*   "DurableObject"   : src/unnamed/part_000 (class Container extends     *)
(*                       DurableObject, hand-written forwarding)           *)
(*                                                                         *)
(* Strings that the code inspects or rewrites (URLs, the "/api/" prefix,   *)
(* the 'https:' pattern) are sequences of one-character strings, so that   *)
(* URL parsing, startsWith and String.prototype.replace are computed on    *)
(* characters as the code computes them.                                   *)
(***************************************************************************)
EXTENDS Integers, Sequences, FiniteSets, TLC

\* ------------------------------------------------------------------ bounds

\* Number of requests that arrive in one behaviour.
MaxRequests == 2

\* --------------------------------------------------------- program constants

\* defaultPort = 3210 (ConvexContainer)
defaultPort == 3210

\* getTcpPort(3210) (Container.fetch, part_000)
TcpPort == 3210

\* "/api/"
ApiPrefix == <<"/","a","p","i","/">>

\* 'https:' and 'http:' of req.url.replace('https:', 'http:')
HttpsPattern == <<"h","t","t","p","s",":">>

HttpReplacement == <<"h","t","t","p",":">>

\* 'convex-backend'
BackendName ==
    <<"c","o","n","v","e","x","-","b","a","c","k","e","n","d">>

\* ------------------------------------------------------------ string helpers

\* First index i >= from with s[i] \in cs, or Len(s) + 1 when there is none.
IndexOfAny(s, cs, from) ==
    LET hits == {i \in from..Len(s) : s[i] \in cs}
    IN  IF hits = {} THEN Len(s) + 1
        ELSE CHOOSE i \in hits : \A j \in hits : i <= j

\* String.prototype.startsWith
StartsWith(s, p) ==
    /\ Len(s) >= Len(p)
    /\ SubSeq(s, 1, Len(p)) = p

\* Index of the first occurrence of pat in s, or 0 (String.prototype.indexOf,
\* one-based).
IndexOf(s, pat) ==
    LET hits == {i \in 1..(Len(s) - Len(pat) + 1) :
                    SubSeq(s, i, i + Len(pat) - 1) = pat}
    IN  IF hits = {} THEN 0
        ELSE CHOOSE i \in hits : \A j \in hits : i <= j

\* String.prototype.replace with a string pattern: only the first occurrence
\* of pat is replaced; s is returned unchanged when pat does not occur.
Replace(s, pat, rep) ==
    LET i == IndexOf(s, pat)
    IN  IF i = 0 THEN s
        ELSE SubSeq(s, 1, i - 1) \o rep \o SubSeq(s, i + Len(pat), Len(s))

\* ------------------------------------------------------------- URL parsing
\* new URL(href) on a serialised absolute http(s) URL:
\*   scheme ":" "//" host [ path ] [ "?" query ] [ "#" fragment ]

\* url.protocol, with its colon
Protocol(u) == SubSeq(u, 1, IndexOfAny(u, {":"}, 1))

HostStart(u) == IndexOfAny(u, {":"}, 1) + 3

PathStart(u) == IndexOfAny(u, {"/", "?", "#"}, HostStart(u))

PathEnd(u) == IndexOfAny(u, {"?", "#"}, PathStart(u))

\* url.host
Host(u) == SubSeq(u, HostStart(u), PathStart(u) - 1)

\* url.pathname: an empty path of an http(s) URL is "/"
Pathname(u) ==
    IF PathStart(u) = PathEnd(u) THEN <<"/">>
    ELSE SubSeq(u, PathStart(u), PathEnd(u) - 1)

\* url.search
Search(u) ==
    SubSeq(u, PathEnd(u), IndexOfAny(u, {"#"}, PathEnd(u)) - 1)

\* --------------------------------------------------------------- requests

\* "https://h/api/"
UrlApiRoot ==
    <<"h","t","t","p","s",":","/","/","h","/","a","p","i","/">>

\* "https://h/api/https:"
UrlApiHttpsInPath ==
    <<"h","t","t","p","s",":","/","/","h","/","a","p","i","/","h","t","t","p","s",":">>

\* "http://h/api/v?u=https://e"
UrlHttpQueryHttps ==
    <<"h","t","t","p",":","/","/","h","/","a","p","i","/","v","?","u","=","h","t","t","p","s",":","/","/","e">>

\* "https://h/api"
UrlNoSlash ==
    <<"h","t","t","p","s",":","/","/","h","/","a","p","i">>

\* "https://h/API/v"
UrlUpper ==
    <<"h","t","t","p","s",":","/","/","h","/","A","P","I","/","v">>

\* "https://h/x/api/v"
UrlNested ==
    <<"h","t","t","p","s",":","/","/","h","/","x","/","a","p","i","/","v">>

\* "https://h/apix/y"
UrlApix ==
    <<"h","t","t","p","s",":","/","/","h","/","a","p","i","x","/","y">>

\* "https://h/x?p=/api/"
UrlQueryApi ==
    <<"h","t","t","p","s",":","/","/","h","/","x","?","p","=","/","a","p","i","/">>

\* "https://api/x"
UrlHostApi ==
    <<"h","t","t","p","s",":","/","/","a","p","i","/","x">>

Urls ==
    { UrlApiRoot, UrlApiHttpsInPath, UrlHttpQueryHttps,
      UrlNoSlash, UrlUpper, UrlNested, UrlApix, UrlQueryApi, UrlHostApi }

NullBody == [kind |-> "null"]

TextBody(t) == [kind |-> "text", text |-> t]

JsonBody(v) == [kind |-> "json", value |-> v]

\* The incoming Request objects: a POST with headers and a body to
\* "https://h/api/", and a GET without a body for every other URL.
Requests ==
    { [url |-> u, method |-> "GET", headers |-> {<<"accept", "*/*">>},
       body |-> NullBody] : u \in Urls \ {UrlApiRoot} }
    \cup
    { [url |-> UrlApiRoot, method |-> "POST",
       headers |-> {<<"content-type", "application/json">>,
                    <<"authorization", "Bearer k">>},
       body |-> TextBody("{\"path\":\"q\"}")] }


NoRequest == [url |-> <<>>, method |-> "", headers |-> {}, body |-> NullBody]

\* --------------------------------------------------------------- responses

NoResponse == [status |-> 0, headers |-> {}, body |-> NullBody]

\* new Response(null, { status: 404 })
NotFoundResponse == [status |-> 404, headers |-> {}, body |-> NullBody]

JsonHeaders == {<<"content-type", "application/json">>}

TextHeaders == {<<"content-type", "text/plain;charset=UTF-8">>}

\* What the Convex backend in the container can answer.
ContainerResponses ==
    { [status |-> 200, headers |-> JsonHeaders,
       body |-> TextBody("{\"status\":\"success\"}")],
      [status |-> 404, headers |-> {}, body |-> NullBody],
      [status |-> 503, headers |-> TextHeaders,
       body |-> TextBody("backend overloaded")] }

\* Values a rejected fetch can throw: an Error, or a value that is no Error.
NoThrown == [isError |-> FALSE, message |-> "", value |-> ""]

Thrown ==
    { [isError |-> TRUE, message |-> "Network connection lost.",
       value |-> "Error: Network connection lost."],
      [isError |-> FALSE, message |-> "undefined",
       value |-> "container port not found"] }

\* Variant of ErrorText that reads .message whatever was thrown.
ErrorTextMessageOnly(e) == e.message

\* err instanceof Error ? err.message : String(err)
ErrorText(e) == IF e.isError THEN e.message ELSE e.value

\* ------------------------------------------------------ Durable Object ids

\* env.CONTAINER.idFromName(name): the id is a function of the name alone.
idFromName(name) == [name |-> name]

\* this.ctx.id.toString()
IdToString(id) == <<"hex", id.name>>

\* ----------------------------------------------------------------- routing

\* Variant of Routed that looks for the prefix anywhere in the URL.
RoutedAnywhere(req) == IndexOf(req.url, ApiPrefix) # 0

\* Variant of Routed that tests the prefix "/api", without the slash.
RoutedNoTrailingSlash(req) ==
    StartsWith(Pathname(req.url), <<"/","a","p","i">>)

\* url.pathname.startsWith("/api/")
Routed(req) == StartsWith(Pathname(req.url), ApiPrefix)

\* Variant of StubId that names the Durable Object after the pathname.
StubIdPerPath(req) == idFromName(Pathname(req.url))

\* env.CONTAINER.idFromName('convex-backend')
StubId(req) == idFromName(BackendName)

\* ------------------------------------------------------------- forwarding

\* EXPOSE 3210 3211: the Convex site port, which the Worker never targets.
SitePort == 3211

\* Variant of ContainerFetchRequest that rewrites the scheme as part_000 does.
ContainerFetchRequestRewritten(req) ==
    [req EXCEPT !.url = Replace(req.url, HttpsPattern, HttpReplacement)]

\* ConvexContainer.fetch: this.containerFetch(request). No port argument is
\* given, so the Container class uses defaultPort.
ContainerFetchRequest(req) == req

ContainerFetchPort == defaultPort

\* Container.fetch (part_000):
\*   this.container.getTcpPort(3210).fetch(req.url.replace('https:', 'http:'), req)
\* fetch(input, init) with a Request as init takes method, headers and body
\* from it and the URL from input.
TcpPortFetchRequest(req) ==
    [req EXCEPT !.url = Replace(req.url, HttpsPattern, HttpReplacement)]

\* Variant of WorkerReturn that masks backend errors behind a bare 502.
WorkerReturnMasked(resp) ==
    IF resp.status >= 500
    THEN [status |-> 502, headers |-> {}, body |-> NullBody]
    ELSE resp

\* "return await ...": the Durable Object and the Worker hand the response on.
DurableObjectReturn(resp) == resp

WorkerReturn(resp) == resp

\* Variant of ContainerFailedResponse that omits { status: 502 }.
ContainerFailedResponseOk(id, req, e) ==
    [status |-> 200, headers |-> JsonHeaders,
     body |-> JsonBody([message |-> "Container available but failed to respond",
                        error |-> ErrorText(e),
                        durableObjectId |-> IdToString(id),
                        path |-> Pathname(req.url),
                        method |-> req.method,
                        containerStatus |-> "available_but_failed"])]

\* Inner catch of Container.fetch (part_000): Response.json({...}, { status: 502 })
ContainerFailedResponse(id, req, e) ==
    [status |-> 502, headers |-> JsonHeaders,
     body |-> JsonBody([message |-> "Container available but failed to respond",
                        error |-> ErrorText(e),
                        durableObjectId |-> IdToString(id),
                        path |-> Pathname(req.url),
                        method |-> req.method,
                        containerStatus |-> "available_but_failed"])]

\* Variant of FallbackResponse that reports req.url instead of url.pathname.
FallbackResponseFullUrl(id, req) ==
    [status |-> 200, headers |-> JsonHeaders,
     body |-> JsonBody([message |-> "HTTP passthrough infrastructure ready",
                        durableObjectId |-> IdToString(id),
                        path |-> req.url,
                        method |-> req.method,
                        containerStatus |-> "not_available",
                        note |-> "Container context not provided - this is expected in Cloudflare Containers beta"])]

\* Fallback of Container.fetch (part_000): Response.json({...}), status 200.
FallbackResponse(id, req) ==
    [status |-> 200, headers |-> JsonHeaders,
     body |-> JsonBody([message |-> "HTTP passthrough infrastructure ready",
                        durableObjectId |-> IdToString(id),
                        path |-> Pathname(req.url),
                        method |-> req.method,
                        containerStatus |-> "not_available",
                        note |-> "Container context not provided - this is expected in Cloudflare Containers beta"])]

\* catch of the Worker's fetch (part_000): new Response(message, { status: 500 })
WorkerErrorResponse(e) ==
    [status |-> 500, headers |-> TextHeaders, body |-> TextBody(ErrorText(e))]

\* Variant of OuterCatchResponse that answers 502 as the inner catch does.
OuterCatchResponseBadGateway(id, e) ==
    [status |-> 502, headers |-> TextHeaders,
     body |-> TextBody(<<IdToString(id), ": ", ErrorText(e)>>)]

\* Outer catch of Container.fetch (part_000):
\*   new Response(`${this.ctx.id.toString()}: ${message}`, { status: 500 })
OuterCatchResponse(id, e) ==
    [status |-> 500, headers |-> TextHeaders,
     body |-> TextBody(<<IdToString(id), ": ", ErrorText(e)>>)]

\* Whether the Durable Object's fetch has an outer try/catch around its whole
\* body: Container.fetch of part_000 has, ConvexContainer.fetch has none.
OuterCatches(v) == v = "DurableObject"

\* Variant of WorkerCatches without the try/catch around the stub's fetch.
WorkerNeverCatches(v) == FALSE

\* Whether the Worker's fetch catches what the stub's fetch throws: part_000
\* wraps the call in try/catch, worker/index.ts does not.
WorkerCatches(v) == v = "DurableObject"

\* Variant of DurableObjectCatches without the inner try/catch.
DurableObjectNeverCatches(v) == FALSE

\* Whether the Durable Object's fetch catches what the container fetch throws.
DurableObjectCatches(v) == v = "DurableObject"

\* --------------------------------------------------------------- lifecycle

\* Variant of ConstructorBlocks in which every Durable Object class opens its
\* constructor with a blockConcurrencyWhile callback.
ConstructorBlocksAlways(v, c) == TRUE

\* Constructor of Container (part_000): "if (this.container)" guards the
\* blockConcurrencyWhile call. ConvexContainer declares no constructor.
ConstructorBlocks(v, c) == v = "DurableObject" /\ c

\* Variant of StartNeeded that calls start() whatever container.running says.
StartNeededAlways(isRunning) == TRUE

\* The callback: if (!this.container!.running) this.container!.start();
StartNeeded(isRunning) == ~isRunning

\* Variant of GateOpen in which the constructor's callback does not hold
\* back the delivery of fetch.
GateIgnored(d) == TRUE

\* blockConcurrencyWhile: no event is delivered to the instance until the
\* callback has completed.
GateOpen(d) == d.ready

\* Variant of FetchStarts in which Container.fetch of part_000 starts a
\* container that is not running, as containerFetch does.
FetchStartsAlways(v) == TRUE

\* Whether the Durable Object's fetch starts a container that is not running:
\* containerFetch of the Container class does ("Containers auto-start on
\* first request"); Container.fetch of part_000 goes straight to getTcpPort.
FetchStarts(v) == v = "ConvexContainer"

\* ------------------------------------------------------------------- state

VARIABLES
    variant,        \* which Worker is deployed
    ctxContainer,   \* whether ctx.container is defined
    running,        \* ids of the Durable Objects whose container is running
    dobjs,          \* the live Durable Object instances
    reqs,           \* per request: position in the handler, request, outcome
    stubs,          \* stubs obtained by the Worker: env.CONTAINER.get(id)
    forwards,       \* fetches issued to the container
    starts,         \* container starts
    console         \* console.error lines

vars ==
    <<variant, ctxContainer, running, dobjs, reqs, stubs, forwards,
      starts, console>>

Variants == {"ConvexContainer", "DurableObject"}

RequestIds == 1..MaxRequests

IdleRequest ==
    [pc |-> "idle", req |-> NoRequest, id |-> idFromName(<<>>),
     stubCalls |-> 0, fwdCalls |-> 0,
     resp |-> NoResponse, answer |-> NoResponse, thrown |-> NoThrown,
     buildThrown |-> NoThrown, origin |-> "none"]

Init ==
    /\ variant \in Variants
    /\ ctxContainer \in BOOLEAN
    \* the Container class of @cloudflare/containers needs ctx.container
    /\ variant = "ConvexContainer" => ctxContainer
    /\ running \in {{}, {idFromName(BackendName)}}
    /\ running # {} => ctxContainer
    /\ dobjs = {}
    /\ reqs = [r \in RequestIds |-> IdleRequest]
    /\ stubs = {}
    /\ forwards = {}
    /\ starts = {}
    /\ console = {}

\* ----------------------------------------------------------------- actions

\* default.fetch up to its await: parse the URL, route on the pathname, and
\* either call the stub's fetch or answer 404.
WorkerFetch(r, req) ==
    /\ reqs[r].pc = "idle"
    /\ \A q \in RequestIds : q < r => reqs[q].pc # "idle"
    /\ IF Routed(req)
       THEN /\ reqs' = [reqs EXCEPT ![r] =
                           [@ EXCEPT !.pc = "stub", !.req = req,
                                     !.id = StubId(req),
                                     !.stubCalls = @ + 1]]
            /\ stubs' = stubs \cup {[rid |-> r, id |-> StubId(req)]}
       ELSE /\ reqs' = [reqs EXCEPT ![r] =
                           [@ EXCEPT !.pc = "returned", !.req = req,
                                     !.resp = NotFoundResponse,
                                     !.origin = "worker404"]]
            /\ UNCHANGED stubs
    /\ UNCHANGED <<variant, ctxContainer, running, dobjs, forwards,
                   starts, console>>

\* The stub's fetch rejects (the Durable Object cannot be reached or is
\* reset). part_000 catches, logs and answers 500; worker/index.ts has no
\* catch and the handler throws.
StubFetchThrows(r, e) ==
    /\ reqs[r].pc = "stub"
    /\ IF WorkerCatches(variant)
       THEN /\ reqs' = [reqs EXCEPT ![r] =
                           [@ EXCEPT !.pc = "returned",
                                     !.resp = WorkerErrorResponse(e),
                                     !.thrown = e,
                                     !.origin = "worker500"]]
            /\ console' = console \cup
                   {<<"Error forwarding to Convex backend:", ErrorText(e)>>}
       ELSE /\ reqs' = [reqs EXCEPT ![r] =
                           [@ EXCEPT !.pc = "threw", !.thrown = e,
                                     !.origin = "threw"]]
            /\ UNCHANGED console
    /\ UNCHANGED <<variant, ctxContainer, running, dobjs, stubs,
                   forwards, starts>>

\* The platform constructs the Durable Object for a pending stub fetch.
\* part_000: this.container = ctx.container; if present, the constructor
\* calls blockConcurrencyWhile and the instance takes no fetch until the
\* callback is done. worker/index.ts: ConvexContainer declares no constructor.
Construct(r) ==
    LET id == reqs[r].id
        blocks == ConstructorBlocks(variant, ctxContainer)
    IN  /\ reqs[r].pc = "stub"
        /\ ~ \E d \in dobjs : d.id = id
        /\ dobjs' = dobjs \cup
               {[id |-> id, container |-> ctxContainer,
                 ready |-> ~blocks,
                 rid |-> IF blocks THEN r ELSE 0]}
        /\ UNCHANGED <<variant, ctxContainer, running, reqs, stubs, forwards,
                       starts, console>>

\* The callback given to blockConcurrencyWhile (part_000): start the
\* container unless it is running; the gate opens when the callback is done.
\* Until then the instance remembers the request it was constructed for.
ConstructorBlock(d) ==
    LET isRunning == d.id \in running
        startsIt == StartNeeded(isRunning)
    IN  /\ d \in dobjs
        /\ ~d.ready
        /\ dobjs' = (dobjs \ {d}) \cup
               {[d EXCEPT !.ready = TRUE, !.rid = 0]}
        /\ running' = IF startsIt THEN running \cup {d.id} ELSE running
        /\ starts' = IF startsIt
                     THEN starts \cup
                          {[id |-> d.id, rid |-> d.rid, by |-> "constructor",
                            wasRunning |-> isRunning]}
                     ELSE starts
        /\ UNCHANGED <<variant, ctxContainer, reqs, stubs, forwards, console>>

\* The Durable Object's fetch up to its await. worker/index.ts:
\* containerFetch(request); the Container class starts a container that is
\* not running ("Containers auto-start on first request").
\* part_000: the forward through getTcpPort when this.container is set,
\* the fallback JSON otherwise.
DurableObjectFetch(r) ==
    /\ reqs[r].pc = "stub"
    /\ \E d \in dobjs :
        LET isRunning == d.id \in running
            startsIt == FetchStarts(variant) /\ d.container /\ ~isRunning
            forward(port, request) ==
                [rid |-> r, id |-> d.id, port |-> port, request |-> request]
        IN
        /\ d.id = reqs[r].id
        /\ GateOpen(d)
        /\ running' = IF startsIt THEN running \cup {d.id} ELSE running
        /\ starts' = IF startsIt
                     THEN starts \cup
                          {[id |-> d.id, rid |-> r, by |-> "containerFetch",
                            wasRunning |-> isRunning]}
                     ELSE starts
        /\ IF variant = "ConvexContainer"
           THEN /\ forwards' = forwards \cup
                       {forward(ContainerFetchPort,
                                ContainerFetchRequest(reqs[r].req))}
                /\ reqs' = [reqs EXCEPT ![r] =
                               [@ EXCEPT !.pc = "container",
                                         !.fwdCalls = @ + 1]]
           ELSE IF d.container
           THEN /\ forwards' = forwards \cup
                       {forward(TcpPort, TcpPortFetchRequest(reqs[r].req))}
                /\ reqs' = [reqs EXCEPT ![r] =
                               [@ EXCEPT !.pc = "container",
                                         !.fwdCalls = @ + 1]]
           ELSE /\ reqs' = [reqs EXCEPT ![r] =
                               [@ EXCEPT !.pc = "returned",
                                         !.resp = WorkerReturn(
                                             FallbackResponse(d.id, reqs[r].req)),
                                         !.origin = "fallback"]]
                /\ UNCHANGED forwards
    /\ UNCHANGED <<variant, ctxContainer, dobjs, stubs, console>>

\* Variant of ContainerResponds in which the Durable Object keeps the first
\* backend response it has seen and returns it for later requests.
ContainerRespondsCached(r, a) ==
    LET seen == {q \in RequestIds : reqs[q].origin = "container"}
        kept == IF seen = {} THEN a
                ELSE reqs[CHOOSE q \in seen : TRUE].resp
    IN  /\ reqs[r].pc = "container"
        /\ reqs[r].id \in running
        /\ reqs' = [reqs EXCEPT ![r] =
                       [@ EXCEPT !.pc = "returned",
                                 !.resp = WorkerReturn(DurableObjectReturn(kept)),
                                 !.answer = a,
                                 !.origin = "container"]]
        /\ UNCHANGED <<variant, ctxContainer, running, dobjs, stubs,
                       forwards, starts, console>>

\* The backend answers the forwarded request; the Durable Object returns the
\* response to the Worker and the Worker to the client.
ContainerResponds(r, a) ==
    /\ reqs[r].pc = "container"
    /\ reqs[r].id \in running
    /\ reqs' = [reqs EXCEPT ![r] =
                   [@ EXCEPT !.pc = "returned",
                             !.resp = WorkerReturn(DurableObjectReturn(a)),
                             !.answer = a,
                             !.origin = "container"]]
    /\ UNCHANGED <<variant, ctxContainer, running, dobjs, stubs,
                   forwards, starts, console>>

\* Variant of ContainerThrows that hands a failed request back to the Durable
\* Object's fetch once, which forwards it again.
ContainerThrowsRetry(r, e) ==
    /\ reqs[r].pc = "container"
    /\ reqs' = [reqs EXCEPT ![r] =
                   [@ EXCEPT !.pc = IF reqs[r].fwdCalls < 2 THEN "stub"
                                   ELSE "threw",
                             !.thrown = e]]
    /\ UNCHANGED <<variant, ctxContainer, running, dobjs, stubs,
                   forwards, starts, console>>

\* The fetch to the container rejects. part_000: the inner catch of
\* Container.fetch answers 502 and nothing reaches the outer catch or the
\* Worker. Uncaught by the inner catch it would reach the outer catch; uncaught
\* in the Durable Object, the rejection passes through the stub's fetch to the
\* Worker's handler: worker/index.ts has no catch there and the handler
\* throws.
ContainerThrows(r, e) ==
    /\ reqs[r].pc = "container"
    /\ IF DurableObjectCatches(variant)
       THEN /\ reqs' = [reqs EXCEPT ![r] =
                           [@ EXCEPT !.pc = "returned",
                                     !.resp = WorkerReturn(
                                         ContainerFailedResponse(reqs[r].id, reqs[r].req, e)),
                                     !.thrown = e,
                                     !.origin = "do502"]]
            /\ UNCHANGED console
       ELSE IF OuterCatches(variant)
       THEN /\ reqs' = [reqs EXCEPT ![r] =
                           [@ EXCEPT !.pc = "returned",
                                     !.resp = WorkerReturn(
                                         OuterCatchResponse(reqs[r].id, e)),
                                     !.thrown = e,
                                     !.origin = "do500"]]
            /\ UNCHANGED console
       ELSE IF WorkerCatches(variant)
       THEN /\ reqs' = [reqs EXCEPT ![r] =
                           [@ EXCEPT !.pc = "returned",
                                     !.resp = WorkerErrorResponse(e),
                                     !.thrown = e,
                                     !.origin = "worker500"]]
            /\ console' = console \cup
                   {<<"Error forwarding to Convex backend:", ErrorText(e)>>}
       ELSE /\ reqs' = [reqs EXCEPT ![r] =
                           [@ EXCEPT !.pc = "threw", !.thrown = e,
                                     !.origin = "threw"]]
            /\ UNCHANGED console
    /\ UNCHANGED <<variant, ctxContainer, running, dobjs, stubs,
                   forwards, starts>>

\* The platform stops the container (crash, or sleep when idle).
ContainerStops(id) ==
    /\ id \in running
    /\ running' = running \ {id}
    /\ UNCHANGED <<variant, ctxContainer, dobjs, reqs, stubs, forwards,
                   starts, console>>

\* The platform evicts a Durable Object instance that has no request pending
\* or in progress.
Evict(d) ==
    /\ d \in dobjs
    /\ \A r \in RequestIds :
           reqs[r].pc \in {"stub", "container"} => reqs[r].id # d.id
    /\ dobjs' = dobjs \ {d}
    /\ UNCHANGED <<variant, ctxContainer, running, reqs, stubs,
                   forwards, starts, console>>

Next ==
    \/ \E r \in RequestIds, req \in Requests : WorkerFetch(r, req)
    \/ \E r \in RequestIds, e \in Thrown : StubFetchThrows(r, e)
    \/ \E r \in RequestIds : Construct(r)
    \/ \E d \in dobjs : ConstructorBlock(d)
    \/ \E r \in RequestIds : DurableObjectFetch(r)
    \/ \E r \in RequestIds, a \in ContainerResponses : ContainerResponds(r, a)
    \/ \E r \in RequestIds, e \in Thrown : ContainerThrows(r, e)
    \/ \E id \in running : ContainerStops(id)
    \/ \E d \in dobjs : Evict(d)

Spec == Init /\ [][Next]_vars

\* Container.fetch of part_000 without a container: building the fallback
\* response (new URL(req.url), this.ctx.id.toString(), Response.json) throws
\* e; the outer catch answers 500.
FallbackBuildThrows(r, e) ==
    /\ reqs[r].pc = "stub"
    /\ variant = "DurableObject"
    /\ OuterCatches(variant)
    /\ \E d \in dobjs :
        /\ d.id = reqs[r].id
        /\ GateOpen(d)
        /\ ~ d.container
        /\ reqs' = [reqs EXCEPT ![r] =
                       [@ EXCEPT !.pc = "returned",
                                 !.resp = WorkerReturn(
                                     OuterCatchResponse(d.id, e)),
                                 !.buildThrown = e,
                                 !.origin = "do500"]]
    /\ UNCHANGED <<variant, ctxContainer, running, dobjs, stubs, forwards,
                   starts, console>>

\* Container.fetch of part_000: the container fetch throws e and, in the
\* inner catch, building the diagnostic response (new URL(req.url),
\* String(containerErr), this.ctx.id.toString(), Response.json) throws b; the
\* outer catch answers 500 from b.
DiagnosticBuildThrows(r, e, b) ==
    /\ reqs[r].pc = "container"
    /\ variant = "DurableObject"
    /\ DurableObjectCatches(variant)
    /\ OuterCatches(variant)
    /\ reqs' = [reqs EXCEPT ![r] =
                   [@ EXCEPT !.pc = "returned",
                             !.resp = WorkerReturn(
                                 OuterCatchResponse(reqs[r].id, b)),
                             !.thrown = e,
                             !.buildThrown = b,
                             !.origin = "do500"]]
    /\ UNCHANGED <<variant, ctxContainer, running, dobjs, stubs, forwards,
                   starts, console>>

\* The steps of Next, and the steps in which building a response throws.
NextBuild ==
    \/ Next
    \/ \E r \in RequestIds, e \in Thrown : FallbackBuildThrows(r, e)
    \/ \E r \in RequestIds, e \in Thrown, b \in Thrown :
           DiagnosticBuildThrows(r, e, b)

BuildSpec == Init /\ [][NextBuild]_vars

\* ------------------------------------------------------------ properties

BackendId == idFromName(BackendName)

\* The URLs of Urls whose pathname starts with "/api/", listed by hand from
\* the URL syntax (not computed by Pathname).
ApiUrls ==
    { UrlApiRoot, UrlApiHttpsInPath, UrlHttpQueryHttps }

Arrived == {r \in RequestIds : reqs[r].pc # "idle"}

Finished == {r \in RequestIds : reqs[r].pc \in {"returned", "threw"}}

StubOf(r) == {s \in stubs : s.rid = r}

ForwardsOf(r) == {f \in forwards : f.rid = r}

\* C1: a request is handed to the Durable Object stub if and only if its
\* pathname starts with "/api/"; every other request is answered 404 with an
\* empty body at once, no stub is obtained for it, and it causes no fetch to
\* the container and no container start.
C1_RouteIffApiPrefix ==
    \A r \in Arrived :
        /\ (reqs[r].stubCalls = 1) <=> (reqs[r].req.url \in ApiUrls)
        /\ (StubOf(r) # {}) <=> (reqs[r].req.url \in ApiUrls)
        /\ reqs[r].req.url \notin ApiUrls =>
            /\ reqs[r].pc = "returned"
            /\ reqs[r].resp.status = 404
            /\ reqs[r].resp.body = NullBody
            /\ reqs[r].resp = NotFoundResponse
            /\ ForwardsOf(r) = {}
            /\ reqs[r].fwdCalls = 0
            /\ \A s \in starts : s.rid # r

\* One request outside "/api/" has been answered 404 while another, under
\* "/api/", has been forwarded to the container.
C1_Witness ==
    \E r1, r2 \in RequestIds :
        /\ reqs[r1].req.url = UrlQueryApi
        /\ reqs[r1].resp.status = 404
        /\ reqs[r2].req.url = UrlApiRoot
        /\ ForwardsOf(r2) # {}

\* C2: when the backend answers a forwarded request, the response the client
\* gets is that response: same status, headers and body, for 2xx, 4xx and 5xx
\* alike.
C2_ResponseVerbatim ==
    \A r \in RequestIds :
        reqs[r].origin = "container" =>
            /\ reqs[r].pc = "returned"
            /\ reqs[r].resp.status = reqs[r].answer.status
            /\ reqs[r].resp.headers = reqs[r].answer.headers
            /\ reqs[r].resp.body = reqs[r].answer.body
            /\ reqs[r].answer \in ContainerResponses

\* The backend's 503 and its 404 have both been returned to clients.
C2_Witness ==
    \E r1, r2 \in RequestIds :
        /\ reqs[r1].origin = "container"
        /\ reqs[r1].answer.status = 503
        /\ reqs[r1].resp.status = 503
        /\ reqs[r2].origin = "container"
        /\ reqs[r2].answer.status = 404

\* C3: in worker/index.ts the request given to containerFetch is the request
\* the Worker received: same URL (scheme included), method, headers, body.
C3_ConvexContainerForwardsUnmodified ==
    variant = "ConvexContainer" =>
        /\ \A f \in forwards :
            /\ f.request.url = reqs[f.rid].req.url
            /\ f.request.method = reqs[f.rid].req.method
            /\ f.request.headers = reqs[f.rid].req.headers
            /\ f.request.body = reqs[f.rid].req.body
        /\ \A r \in RequestIds :
            reqs[r].fwdCalls = 1 => ForwardsOf(r) # {}

\* An https POST with headers and a body has been given to containerFetch.
C3_Witness ==
    /\ variant = "ConvexContainer"
    /\ \E f \in forwards :
        /\ reqs[f.rid].req.url = UrlApiRoot
        /\ reqs[f.rid].req.method = "POST"
        /\ f.request.body # NullBody

\* C4: in part_000 the request sent to the container differs from the
\* incoming one only in its scheme: host, pathname and query of the forwarded
\* URL are those of the incoming URL, whatever the incoming URL is, and
\* method, headers and body are unchanged.
C4_SchemeOnlyRewrite ==
    variant = "DurableObject" =>
        \A f \in forwards :
            /\ Protocol(f.request.url) = HttpReplacement
            /\ Host(f.request.url) = Host(reqs[f.rid].req.url)
            /\ Pathname(f.request.url) = Pathname(reqs[f.rid].req.url)
            /\ Search(f.request.url) = Search(reqs[f.rid].req.url)
            /\ f.request.method = reqs[f.rid].req.method
            /\ f.request.headers = reqs[f.rid].req.headers
            /\ f.request.body = reqs[f.rid].req.body

\* C5: every forwarded request resolves the Durable Object id of the one name
\* 'convex-backend', so any two stubs have the same id, and at most one
\* Durable Object instance and one container serve the forwards.
C5_SingletonTarget ==
    /\ \A s1, s2 \in stubs : s1.id = s2.id
    /\ \A s \in stubs : s.id = BackendId
    /\ \A f \in forwards : f.id = BackendId
    /\ \A d \in dobjs : d.id = BackendId
    /\ Cardinality(dobjs) <= 1
    /\ Cardinality({f.id : f \in forwards}) <= 1
    /\ running \subseteq {BackendId}

\* Two requests with different paths and methods have both been forwarded.
C5_Witness ==
    \E f1, f2 \in forwards :
        /\ f1.rid # f2.rid
        /\ Pathname(reqs[f1.rid].req.url) # Pathname(reqs[f2.rid].req.url)
        /\ reqs[f1.rid].req.method = "POST"
        /\ reqs[f2.rid].req.method = "GET"
        /\ Cardinality(stubs) = 2

\* C6: every fetch to the container targets port 3210, in both variants;
\* none targets 3211 or any other port.
C6_FixedBackendPort ==
    \A f \in forwards :
        /\ f.port = 3210
        /\ f.port # 3211

\* A request has been forwarded under the variant of worker/index.ts.
C6_Witness ==
    /\ variant = "ConvexContainer"
    /\ \E f \in forwards : reqs[f.rid].pc = "container"

\* C7: when the stub's fetch or the container fetch throws for an "/api/"
\* request, the Worker's handler does not throw: it returns status 500 or 502
\* with the thrown error's message in the body, in worker/index.ts as in
\* part_000.
C7_FailureBecomesErrorResponse ==
    \A r \in RequestIds :
        reqs[r].thrown # NoThrown =>
            /\ reqs[r].pc = "returned"
            /\ reqs[r].resp.status \in {500, 502}
            /\ \/ /\ reqs[r].resp.body.kind = "text"
                  /\ reqs[r].resp.body.text = ErrorText(reqs[r].thrown)
               \/ /\ reqs[r].resp.body.kind = "json"
                  /\ reqs[r].resp.body.value.error = ErrorText(reqs[r].thrown)

\* C8: no retry. A request causes at most one stub fetch and at most one
\* fetch to the container, and once a fetch has thrown for it the handler is
\* over (returned or thrown).
C8_NoRetry ==
    \A r \in RequestIds :
        /\ reqs[r].stubCalls <= 1
        /\ reqs[r].fwdCalls <= 1
        /\ Cardinality(StubOf(r)) <= 1
        /\ Cardinality(ForwardsOf(r)) <= 1
        /\ reqs[r].thrown # NoThrown => reqs[r].pc \in {"returned", "threw"}

\* A request whose one fetch to the container threw is over: part_000 answered 502.
C8_Witness ==
    \E r \in RequestIds :
        /\ reqs[r].fwdCalls = 1
        /\ reqs[r].thrown # NoThrown
        /\ reqs[r].pc = "returned"
        /\ reqs[r].resp.status = 502

\* C9 as stated: in part_000 every "/api/" request that the backend did not
\* answer is answered with status 500 or 502.
C9_UnansweredIsError ==
    variant = "DurableObject" =>
        \A r \in Finished :
            (reqs[r].req.url \in ApiUrls /\ reqs[r].origin # "container") =>
                /\ reqs[r].pc = "returned"
                /\ reqs[r].resp.status \in {500, 502}

\* C9 amended: in part_000 an "/api/" request that the backend did not answer
\* is answered 500 or 502 when a fetch threw for it, and otherwise by the
\* fallback JSON with status 200, which happens exactly when ctx.container is
\* absent.
C9_UnansweredIsErrorOrFallback ==
    variant = "DurableObject" =>
        \A r \in Finished :
            (reqs[r].req.url \in ApiUrls /\ reqs[r].origin # "container") =>
                /\ reqs[r].pc = "returned"
                /\ \/ /\ reqs[r].thrown # NoThrown
                      /\ reqs[r].resp.status \in {500, 502}
                   \/ /\ reqs[r].thrown = NoThrown
                      /\ ~ ctxContainer
                      /\ reqs[r].resp.status = 200
                      /\ reqs[r].resp.body.value.containerStatus
                             = "not_available"

\* The container is present but stopped, the forward threw, and the client got
\* 502.
C9_Witness ==
    /\ variant = "DurableObject"
    /\ ctxContainer
    /\ \E r \in RequestIds :
        /\ reqs[r].fwdCalls = 1
        /\ reqs[r].id \notin running
        /\ reqs[r].thrown # NoThrown
        /\ reqs[r].resp.status = 502

\* C10: in part_000 with ctx.container undefined, the Durable Object's fetch
\* makes no forward and does not throw; it answers with a JSON body whose
\* containerStatus is "not_available" and that reports the request's
\* pathname, its method and the Durable Object's id.
C10_FallbackWithoutContainer ==
    (variant = "DurableObject" /\ ~ ctxContainer) =>
        /\ forwards = {}
        /\ starts = {}
        /\ \A r \in RequestIds :
            /\ reqs[r].fwdCalls = 0
            /\ reqs[r].pc \notin {"container", "threw"}
            /\ reqs[r].origin \notin {"container", "do502", "threw"}
            /\ reqs[r].origin = "fallback" =>
                /\ reqs[r].pc = "returned"
                /\ reqs[r].resp.headers = JsonHeaders
                /\ reqs[r].resp.body.kind = "json"
                /\ reqs[r].resp.body.value.containerStatus = "not_available"
                /\ reqs[r].resp.body.value.path = Pathname(reqs[r].req.url)
                /\ StartsWith(reqs[r].resp.body.value.path, ApiPrefix)
                /\ reqs[r].resp.body.value.method = reqs[r].req.method
                /\ reqs[r].resp.body.value.durableObjectId
                       = IdToString(BackendId)
            /\ (reqs[r].pc = "returned" /\ reqs[r].req.url \in ApiUrls
                    /\ reqs[r].thrown = NoThrown) =>
                reqs[r].origin = "fallback"

\* A POST with a query-less path and a GET with a query string have both been
\* answered by the fallback.
C10_Witness ==
    /\ variant = "DurableObject"
    /\ ~ ctxContainer
    /\ \E r1, r2 \in RequestIds :
        /\ reqs[r1].origin = "fallback"
        /\ reqs[r1].req.method = "POST"
        /\ reqs[r2].origin = "fallback"
        /\ reqs[r2].req.url = UrlHttpQueryHttps

\* The forwards issued by the step from the current state.
NewForwards == forwards' \ forwards

\* The container starts made by the step from the current state.
NewStarts == starts' \ starts

\* C11: in part_000 with ctx.container present, every forward to the
\* container is issued by an instance whose constructor callback has already
\* completed (it has read container.running and called start() when the
\* container was not running): whatever the order in which requests arrive
\* and the instance is constructed, no forward precedes the start check.
C11_StartBeforeForward ==
    [][ (variant = "DurableObject" /\ ctxContainer) =>
            \A f \in NewForwards :
                /\ \E d \in dobjs : d.id = f.id /\ d.ready
                /\ \A d \in dobjs : d.id = f.id => d.ready
                /\ reqs[f.rid].pc = "stub" ]_vars

\* The constructor started the container for one request and another
\* request has been forwarded while the first is still pending.
C11_Witness ==
    /\ variant = "DurableObject"
    /\ ctxContainer
    /\ \E s \in starts, f \in forwards :
        /\ s.by = "constructor"
        /\ s.id = f.id
        /\ f.rid # s.rid
        /\ reqs[s.rid].pc = "stub"

\* C12: whenever an "/api/" request is forwarded, the container is running:
\* a container that was never started, went to sleep or crashed is started
\* again before the forward is issued, so the backend can answer it.
C12_StartedBeforeForward ==
    [][ \A f \in NewForwards : f.id \in running' ]_vars

\* A request that has reached a live Durable Object instance whose fetch
\* cannot be delivered.
Held(r) ==
    /\ reqs[r].pc = "stub"
    /\ \E d \in dobjs : d.id = reqs[r].id
    /\ ~ ENABLED DurableObjectFetch(r)

\* C14 (as stated): in every variant no arrived request waits on a gate or
\* lock taken by the repository's code.
C14_NoGate ==
    \A r \in RequestIds : ~ Held(r)

\* C14: worker/index.ts holds no request back. In part_000 the only gate is
\* the one the constructor takes with blockConcurrencyWhile when ctx.container
\* is present: a request is held only by an instance whose constructor
\* callback has not completed, and that callback can then run. A forwarded
\* request stays in flight until the container fetch answers or throws; no
\* code cancels it.
C14_OnlyConstructorGate ==
    \A r \in RequestIds :
        /\ Held(r) =>
            /\ variant = "DurableObject"
            /\ ctxContainer
            /\ \E d \in dobjs :
                /\ d.id = reqs[r].id
                /\ ~ d.ready
                /\ ENABLED ConstructorBlock(d)
        /\ reqs[r].fwdCalls > 0 =>
            \/ reqs[r].pc = "container"
            \/ reqs[r].origin \in {"container", "do502", "threw"}

\* Two requests wait at the same instance for its constructor callback.
C14_Witness ==
    \E r1, r2 \in RequestIds :
        /\ r1 # r2
        /\ Held(r1)
        /\ Held(r2)

\* The URLs of Urls that the prefix test must reject, with the pathname each
\* has by the URL syntax: "/api" without the slash, another case, a longer
\* first segment, "/api/" deeper in the path, in the query, and around the
\* host.
RejectedPathnames ==
    { <<UrlNoSlash, <<"/","a","p","i">> >>,
      <<UrlUpper, <<"/","A","P","I","/","v">> >>,
      <<UrlApix, <<"/","a","p","i","x","/","y">> >>,
      <<UrlNested, <<"/","x","/","a","p","i","/","v">> >>,
      <<UrlQueryApi, <<"/","x">> >>,
      <<UrlHostApi, <<"/","x">> >> }

\* C15: the prefix test reads the parsed pathname only, is case-sensitive and
\* needs the trailing slash: requests with pathname "/api", "/API/v",
\* "/apix/y", "/x/api/v", and requests with "/api/" in the query or around
\* the host only, are answered 404 and never reach the stub; the pathname
\* "/api/" itself is handed to the stub.
C15_PrefixOnPathname ==
    /\ \A p \in RejectedPathnames : Pathname(p[1]) = p[2]
    /\ Pathname(UrlApiRoot) = <<"/","a","p","i","/">>
    /\ \A r \in Arrived :
        /\ (\E p \in RejectedPathnames : reqs[r].req.url = p[1]) =>
            /\ reqs[r].pc = "returned"
            /\ reqs[r].resp = NotFoundResponse
            /\ reqs[r].stubCalls = 0
            /\ StubOf(r) = {}
            /\ ForwardsOf(r) = {}
        /\ reqs[r].req.url = UrlApiRoot =>
            /\ reqs[r].stubCalls = 1
            /\ StubOf(r) # {}
            /\ reqs[r].origin # "worker404"

\* A request for "https://api/x" has been answered 404 and a request for
\* "https://h/api/" has been forwarded to the container.
C15_Witness ==
    \E r1, r2 \in RequestIds :
        /\ reqs[r1].req.url = UrlHostApi
        /\ reqs[r1].resp = NotFoundResponse
        /\ reqs[r2].req.url = UrlApiRoot
        /\ ForwardsOf(r2) # {}

\* The pathname of each "/api/" URL of Urls, by the URL syntax.
ApiPathnames ==
    { <<UrlApiRoot, <<"/","a","p","i","/">> >>,
      <<UrlApiHttpsInPath, <<"/","a","p","i","/","h","t","t","p","s",":">> >>,
      <<UrlHttpQueryHttps, <<"/","a","p","i","/","v">> >> }

\* What "err instanceof Error ? err.message : String(err)" gives for e: the
\* message of an Error, the string form of any other thrown value.
MessageOf(e) == IF e.isError THEN e.message ELSE e.value

\* C16: in part_000 with ctx.container present, a request whose fetch on
\* getTcpPort(3210) throws is answered by the Durable Object with status 502
\* and a JSON body whose error is the thrown value's message (its string form
\* when it is not an Error), whose containerStatus is "available_but_failed"
\* and whose path and method are the request's; nothing reaches the Worker's
\* catch: no 500 is answered and no line is logged for it.
C16_ContainerFailureIs502 ==
    variant = "DurableObject" =>
        /\ \A r \in RequestIds :
            (reqs[r].fwdCalls > 0 /\ reqs[r].thrown # NoThrown) =>
                /\ reqs[r].pc = "returned"
                /\ reqs[r].origin = "do502"
                /\ reqs[r].resp.status = 502
                /\ reqs[r].resp.headers = JsonHeaders
                /\ reqs[r].resp.body.kind = "json"
                /\ LET v == reqs[r].resp.body.value
                   IN  /\ v.error = MessageOf(reqs[r].thrown)
                       /\ v.containerStatus = "available_but_failed"
                       /\ <<reqs[r].req.url, v.path>> \in ApiPathnames
                       /\ v.method = reqs[r].req.method
        /\ console # {} =>
            \E r \in RequestIds :
                /\ reqs[r].origin = "worker500"
                /\ reqs[r].fwdCalls = 0

\* The container fetch threw a value that is not an Error for one request and
\* an Error for another, and both were answered 502.
C16_Witness ==
    /\ variant = "DurableObject"
    /\ ctxContainer
    /\ \E r1, r2 \in RequestIds :
        /\ reqs[r1].resp.status = 502
        /\ ~ reqs[r1].thrown.isError
        /\ reqs[r1].thrown # NoThrown
        /\ reqs[r2].resp.status = 502
        /\ reqs[r2].thrown.isError
        /\ console = {}

\* C17: the Worker's fetch handler of part_000 is total: no request ends with
\* the handler throwing, and every finished request has a Response. When the
\* stub's fetch throws for an "/api/" request, the handler logs the error and
\* answers status 500 with a text body that is exactly the error's message
\* (the string form of a thrown value that is not an Error).
C17_WorkerTotal ==
    variant = "DurableObject" =>
        \A r \in RequestIds :
            /\ reqs[r].pc # "threw"
            /\ reqs[r].origin # "threw"
            /\ r \in Finished =>
                /\ reqs[r].resp # NoResponse
                /\ reqs[r].resp.status \in {200, 404, 500, 502, 503}
            /\ (reqs[r].fwdCalls = 0 /\ reqs[r].thrown # NoThrown) =>
                /\ reqs[r].pc = "returned"
                /\ reqs[r].origin = "worker500"
                /\ \E p \in ApiPathnames : reqs[r].req.url = p[1]
                /\ reqs[r].resp.status = 500
                /\ reqs[r].resp.body = TextBody(MessageOf(reqs[r].thrown))
                /\ <<"Error forwarding to Convex backend:",
                     MessageOf(reqs[r].thrown)>> \in console

\* The stub's fetch threw a value that is not an Error for one request and
\* the container fetch threw for another; both requests have a response.
C17_Witness ==
    /\ variant = "DurableObject"
    /\ \E r1, r2 \in RequestIds :
        /\ reqs[r1].origin = "worker500"
        /\ ~ reqs[r1].thrown.isError
        /\ reqs[r1].resp.body = TextBody("container port not found")
        /\ reqs[r2].origin = "do502"
        /\ console # {}

\* C18: in part_000 container.start() is called only by the constructor's
\* callback, at most once per Durable Object instance (in the one step in
\* which that instance's callback completes), and only when container.running
\* is false at that moment. Container.fetch never calls it: once an
\* instance's callback has completed, no step of that instance starts the
\* container, whether or not the container has stopped since.
C18_StartOnlyInConstructor ==
    [][ variant = "DurableObject" =>
            /\ \A s \in starts' : s.by = "constructor" /\ ~ s.wasRunning
            /\ Cardinality(NewStarts) <= 1
            /\ \A s \in NewStarts :
                /\ s.id \notin running
                /\ \E d \in dobjs :
                    /\ d.id = s.id
                    /\ d.container
                    /\ ~ d.ready
                    /\ dobjs' = (dobjs \ {d}) \cup
                           {[d EXCEPT !.ready = TRUE, !.rid = 0]}
                /\ forwards' = forwards
                /\ reqs' = reqs
            /\ \A d \in dobjs :
                d.ready => \A e \in dobjs' : e.id = d.id => e.ready
            /\ (\A d \in dobjs : d.ready) => starts' = starts ]_vars

\* The constructor started the container once, the container has stopped
\* under the live instance, and the forward issued by that instance for
\* a later request has failed without a second start.
C18_Witness ==
    /\ variant = "DurableObject"
    /\ Cardinality(starts) = 1
    /\ \E d \in dobjs, s \in starts, r \in RequestIds :
        /\ d.ready
        /\ d.id \notin running
        /\ s.id = d.id
        /\ s.by = "constructor"
        /\ r # s.rid
        /\ reqs[r].origin = "do502"
        /\ reqs[s.rid].origin = "container"

\* The response request r gets when it is handled alone against the same
\* behaviour of the platform and the container for it: a function of the
\* deployed variant, the request, and what the stub's fetch or the container
\* fetch answered or threw. NoResponse stands for a handler that throws.
Alone(r) ==
    LET q == reqs[r]
        caught(resp) == IF variant = "DurableObject" THEN resp ELSE NoResponse
    IN  IF q.req.url \notin ApiUrls THEN NotFoundResponse
        ELSE IF q.answer # NoResponse THEN q.answer
        ELSE IF q.thrown # NoThrown /\ q.fwdCalls = 0
        THEN caught(WorkerErrorResponse(q.thrown))
        ELSE IF q.thrown # NoThrown
        THEN caught(ContainerFailedResponse(BackendId, q.req, q.thrown))
        ELSE FallbackResponse(BackendId, q.req)

\* C19: no state kept by the Worker or the Durable Object between requests
\* affects a response: every finished request has the response it gets when
\* handled alone against the same container behaviour, so two requests that
\* are equal and meet the same behaviour get equal responses whatever was
\* handled before or between them; whether a request is forwarded depends
\* only on the request and on ctx.container, unless the stub's fetch threw.
C19_ResponseDependsOnRequestOnly ==
    /\ \A r \in Finished :
        /\ reqs[r].resp = Alone(r)
        /\ reqs[r].fwdCalls > 0 =>
               /\ reqs[r].req.url \in ApiUrls
               /\ ctxContainer
        /\ (reqs[r].req.url \in ApiUrls /\ ctxContainer
                /\ reqs[r].fwdCalls = 0) =>
               /\ reqs[r].thrown # NoThrown
               /\ reqs[r].origin \in {"worker500", "threw"}
    /\ \A r1, r2 \in Finished :
        ( /\ reqs[r1].req = reqs[r2].req
          /\ reqs[r1].answer = reqs[r2].answer
          /\ reqs[r1].thrown = reqs[r2].thrown
          /\ reqs[r1].fwdCalls = reqs[r2].fwdCalls ) =>
            /\ reqs[r1].resp = reqs[r2].resp
            /\ reqs[r1].pc = reqs[r2].pc

\* Two equal requests got the same backend answer from two different
\* incarnations of the container.
C19_Witness ==
    \E r1, r2 \in RequestIds :
        /\ r1 # r2
        /\ reqs[r1].req = reqs[r2].req
        /\ reqs[r1].origin = "container"
        /\ reqs[r2].origin = "container"
        /\ reqs[r1].answer = reqs[r2].answer
        /\ Cardinality(starts) = 2

\* What the variant that is not deployed sends to the container for req.
OtherVariantRequest(req) ==
    IF variant = "ConvexContainer"
    THEN TcpPortFetchRequest(req)
    ELSE ContainerFetchRequest(req)

\* C20: on runs where the container is present and answers, the two variants
\* agree: a request answered by the backend has an "/api/" pathname, the
\* client gets the backend's status and body, and what was sent to the
\* container differs from what the other variant sends for the same request
\* in nothing but the URL scheme.
C20_VariantsAgree ==
    \A r \in RequestIds :
        (ctxContainer /\ reqs[r].origin = "container") =>
            /\ reqs[r].req.url \in ApiUrls
            /\ reqs[r].resp.status = reqs[r].answer.status
            /\ reqs[r].resp.body = reqs[r].answer.body
            /\ \A f \in ForwardsOf(r) :
                LET other == OtherVariantRequest(reqs[r].req)
                IN  /\ f.port = TcpPort
                    /\ f.port = ContainerFetchPort
                    /\ f.request.method = other.method
                    /\ f.request.headers = other.headers
                    /\ f.request.body = other.body
                    /\ Host(f.request.url) = Host(other.url)
                    /\ Pathname(f.request.url) = Pathname(other.url)
                    /\ Search(f.request.url) = Search(other.url)

\* The forward issued for request r completes: the container fetch returns a
\* response or throws.
ForwardCompletes(r) ==
    \/ \E a \in ContainerResponses : ContainerResponds(r, a)
    \/ \E e \in Thrown : ContainerThrows(r, e)

\* The runtime delivers a pending stub fetch: it constructs the Durable Object
\* when none is live, runs the constructor's callback to its end, and hands
\* the request to the instance's fetch; and every forward completes. Arrival
\* of requests, failures of the stub, container stops and evictions are left
\* to chance.
Fairness ==
    /\ WF_vars(\E d \in dobjs : ConstructorBlock(d))
    /\ \A r \in RequestIds :
        /\ WF_vars(Construct(r))
        /\ WF_vars(DurableObjectFetch(r))
        /\ WF_vars(ForwardCompletes(r))

FairSpec == Spec /\ Fairness

\* C21: provided every forward to the container eventually returns or throws,
\* every request that has arrived eventually has a response returned by the
\* Worker's handler.
C21_EveryRequestAnswered ==
    \A r \in RequestIds :
        (reqs[r].pc # "idle") ~> (reqs[r].pc = "returned")

\* The requests for which Container.fetch of part_000 has produced a response.
AnsweredByDurableObject ==
    {r \in RequestIds : reqs[r].origin \in {"container", "fallback", "do502", "do500"}}

\* C22: in part_000 the outer catch of Container.fetch is reached exactly when
\* building the fallback or the diagnostic response throws, never by a failure
\* of the container fetch alone, which the inner catch answers with 502; it
\* answers status 500 with the text "<durable object id>: <message>". Every
\* response of Container.fetch has the container's own status, 200 for the
\* fallback, 502 or 500.
C22_OuterCatchOnlyOnBuildFailure ==
    variant = "DurableObject" =>
        \A r \in RequestIds :
            /\ reqs[r].origin = "do500" <=> reqs[r].buildThrown # NoThrown
            /\ reqs[r].buildThrown # NoThrown =>
                /\ reqs[r].pc = "returned"
                /\ reqs[r].resp.status = 500
                /\ reqs[r].resp.body =
                       TextBody(<< <<"hex", BackendName>>, ": ",
                                   MessageOf(reqs[r].buildThrown) >>)
            /\ (reqs[r].fwdCalls > 0 /\ reqs[r].thrown # NoThrown
                    /\ reqs[r].buildThrown = NoThrown) =>
                /\ reqs[r].origin = "do502"
                /\ reqs[r].resp.status = 502
            /\ r \in AnsweredByDurableObject =>
                /\ reqs[r].pc = "returned"
                /\ reqs[r].origin = "container" =>
                       reqs[r].resp.status = reqs[r].answer.status
                /\ reqs[r].origin = "fallback" => reqs[r].resp.status = 200
                /\ reqs[r].origin = "do502" => reqs[r].resp.status = 502
                /\ reqs[r].origin = "do500" => reqs[r].resp.status = 500

\* Building the diagnostic response threw for a request whose container fetch
\* had thrown, and another request's container failure was answered 502.
C22_Witness ==
    /\ variant = "DurableObject"
    /\ \E r1, r2 \in RequestIds :
        /\ reqs[r1].origin = "do500"
        /\ reqs[r1].thrown # NoThrown
        /\ ~ reqs[r1].buildThrown.isError
        /\ reqs[r2].origin = "do502"

=============================================================================
